---- MODULE Spec2Model ----
(***************************************************************************)
(* Model of the POST /analyze handler of src/app.py (analyze_image):       *)
(* input validation, prompt construction, the upstream call with its       *)
(* bounded retry, and the normalisation of the upstream text into JSON.    *)
(*                                                                         *)
(* Strings are sequences of one-character strings.  Two markers are kept   *)
(* as single elements of such a sequence: "base64," (the end of a data-URL *)
(* prefix, 7 characters) and "FENCE" (the code fence of three backquotes,  *)
(* 3 characters).                                                          *)
(***************************************************************************)
EXTENDS Integers, Sequences, FiniteSets, TLC

VARIABLES
    pc,            \* the stage of the request (section 4.5 of the design)
    body,          \* the request body as request.json gives it
    base64_image,  \* the local base64_image
    form_data,     \* the local form_data
    payload,       \* the payload built for the upstream provider
    attempt,       \* the number of attempts started (attempt + 1 of the loop)
    calls,         \* the number of requests.post calls made
    reply,         \* what the last requests.post call gave
    replies,       \* what each requests.post call gave, in order
    content,       \* the local content of the current attempt
    last_error,    \* the local last_error
    failures,      \* the last_error of each failed attempt, in order
    response,      \* the response returned to the caller
    nresp          \* the number of responses returned

vars == <<pc, body, base64_image, form_data, payload, attempt, calls,
          reply, replies, content, last_error, failures, response, nresp>>

(***************************************************************************)
(* Bounds of the model.                                                    *)
(***************************************************************************)
MaxImageLen == 2
MaxMembers == 2

(***************************************************************************)
(* Characters.                                                             *)
(***************************************************************************)
Prefix == "base64,"
Fence == "FENCE"
Pad == "="

Whitespace == {" ", "\n", "\t"}
Digits == {"0", "1", "2", "3", "4", "5", "6", "7", "8", "9"}
Letters == {"a", "b", "c", "d", "e", "f", "g", "h", "i", "j", "k", "l", "m",
            "n", "o", "p", "q", "r", "s", "t", "u", "v", "w", "x", "y", "z",
            "A", "B", "C", "D", "E", "F", "G", "H", "I", "J", "K", "L", "M",
            "N", "O", "P", "Q", "R", "S", "T", "U", "V", "W", "X", "Y", "Z"}
IdStart == Letters \cup {"_"}
IdChar == IdStart \cup Digits
Base64Alphabet == Letters \cup Digits \cup {"+", "/"}

\* len(): the number of characters of a string
CharLen(s) == IF s = Prefix THEN 7 ELSE IF s = Fence THEN 3 ELSE 1

RECURSIVE StrLen(_)
StrLen(s) == IF s = <<>> THEN 0 ELSE CharLen(Head(s)) + StrLen(Tail(s))

\* the pad character repeated n times
Pads(n) == [i \in 1..n |-> Pad]

(***************************************************************************)
(* Input Validator: the image (src/app.py 61-77).                          *)
(***************************************************************************)
HasPrefix(s) == \E i \in 1..Len(s) : s[i] = Prefix

\* base64_image.split('base64,')[1]: the text between the first and the
\* second marker (to the end when there is no second one)
SplitSecond(s) ==
    LET first == CHOOSE i \in 1..Len(s) :
                     s[i] = Prefix /\ \A j \in 1..(i - 1) : s[j] # Prefix
        later == {j \in (first + 1)..Len(s) : s[j] = Prefix}
        stop  == IF later = {} THEN Len(s) + 1
                 ELSE CHOOSE j \in later : \A k \in later : j <= k
    IN  SubSeq(s, first + 1, stop - 1)

StripPrefix(s) == IF HasPrefix(s) THEN SplitSecond(s) ELSE s

\* PadTo4 without its padding
PadTo4NoPadding(s) == s

PadTo4(s) ==
    LET padding == 4 - (StrLen(s) % 4)
    IN  IF padding # 4 THEN s \o Pads(padding) ELSE s

\* base64.b64decode(s) without validate: characters outside the alphabet
\* are skipped, a pad that completes a quad ends the input, and the data
\* characters left over at the end must fill a quad.  The value is TRUE when
\* the decode succeeds.  st = <<quad_pos, pads>>.
RECURSIVE B64Scan(_, _, _, _)
B64Scan(s, i, quad_pos, pads) ==
    IF i > Len(s) THEN quad_pos = 0
    ELSE IF s[i] = Pad
         THEN IF quad_pos >= 2
              THEN IF quad_pos + pads + 1 >= 4 THEN TRUE
                   ELSE B64Scan(s, i + 1, quad_pos, pads + 1)
              ELSE B64Scan(s, i + 1, quad_pos, pads)
         ELSE IF s[i] \in Base64Alphabet
              THEN B64Scan(s, i + 1, (quad_pos + 1) % 4, 0)
              ELSE B64Scan(s, i + 1, quad_pos, pads)

B64DecodeOk(s) == B64Scan(s, 1, 0, 0)

(***************************************************************************)
(* Response Normalizer: the text repairs (src/app.py 281-293).             *)
(***************************************************************************)
\* the first index >= i of s that holds no whitespace (Len(s) + 1 if none)
RECURSIVE SkipWs(_, _)
SkipWs(s, i) ==
    IF i <= Len(s) /\ s[i] \in Whitespace THEN SkipWs(s, i + 1) ELSE i

\* the first index >= i of s that holds no identifier character
RECURSIVE SkipId(_, _)
SkipId(s, i) ==
    IF i <= Len(s) /\ s[i] \in IdChar THEN SkipId(s, i + 1) ELSE i

\* content.strip()
RECURSIVE RStrip(_)
RStrip(s) ==
    IF s # <<>> /\ s[Len(s)] \in Whitespace
    THEN RStrip(SubSeq(s, 1, Len(s) - 1)) ELSE s

Strip(s) == RStrip(SubSeq(s, SkipWs(s, 1), Len(s)))

\* whether the characters of word stand in s from index i on
StartsWithAt(s, i, word) ==
    /\ i + Len(word) - 1 <= Len(s)
    /\ \A k \in 1..Len(word) : s[i + k - 1] = word[k]

FenceJson == <<Fence, "j", "s", "o", "n">>

\* re.sub(r'FENCEjson\s*', '', s): every tagged fence opener, with the
\* whitespace after it, is removed
RECURSIVE DropFenceOpeners(_, _)
DropFenceOpeners(s, i) ==
    IF i > Len(s) THEN <<>>
    ELSE IF StartsWithAt(s, i, FenceJson)
         THEN DropFenceOpeners(s, SkipWs(s, i + Len(FenceJson)))
         ELSE <<s[i]>> \o DropFenceOpeners(s, i + 1)

\* re.sub(r'FENCE\s*$', '', s): a fence that only whitespace follows, at
\* the end of the text, is removed with that whitespace
DropFenceCloser(s) ==
    LET ends == {i \in 1..Len(s) : s[i] = Fence /\ SkipWs(s, i + 1) > Len(s)}
    IN  IF ends = {} THEN s
        ELSE SubSeq(s, 1, (CHOOSE i \in ends : TRUE) - 1)

\* the match of :\s*([a-zA-Z_]+[a-zA-Z0-9_]*)\s*<term> at index i of s:
\* <<first index of the word, index after the word, index of term>>, or
\* <<>> when the pattern does not match there
BareWordAt(s, i, term) ==
    IF i > Len(s) \/ s[i] # ":" THEN <<>>
    ELSE LET w == SkipWs(s, i + 1)
         IN  IF w > Len(s) \/ s[w] \notin IdStart THEN <<>>
             ELSE LET e == SkipId(s, w)
                      t == SkipWs(s, e)
                  IN  IF t <= Len(s) /\ s[t] = term THEN <<w, e, t>>
                      ELSE <<>>

\* re.sub(r':\s*([a-zA-Z_]+[a-zA-Z0-9_]*)\s*<term>', r': "\1"<term>', s)
RECURSIVE QuoteBareWords(_, _, _)
QuoteBareWords(s, i, term) ==
    IF i > Len(s) THEN <<>>
    ELSE LET m == BareWordAt(s, i, term)
         IN  IF m = <<>> THEN <<s[i]>> \o QuoteBareWords(s, i + 1, term)
             ELSE <<":", " ", "\"">> \o SubSeq(s, m[1], m[2] - 1)
                    \o <<"\"", term>> \o QuoteBareWords(s, m[3] + 1, term)

\* the cleaned text on which the JSON object is searched
CleanContent(text) ==
    LET stripped == Strip(text)
        opened   == DropFenceOpeners(stripped, 1)
        closed   == DropFenceCloser(opened)
        commas   == QuoteBareWords(closed, 1, ",")
    IN  QuoteBareWords(commas, 1, "}")

\* re.search(r'\{.*\}', s, re.DOTALL): from the first opening brace to the
\* last closing brace; <<>> stands for no match (a match is never empty)
FindJsonSpan(s) ==
    LET opens  == {i \in 1..Len(s) : s[i] = "{"}
        closes == {i \in 1..Len(s) : s[i] = "}"}
    IN  IF opens = {} \/ closes = {} THEN <<>>
        ELSE LET a == CHOOSE i \in opens : \A j \in opens : i <= j
                 b == CHOOSE i \in closes : \A j \in closes : i >= j
             IN  IF a < b THEN SubSeq(s, a, b) ELSE <<>>

(***************************************************************************)
(* json.loads (src/app.py 296).  A parsed value is written as a sequence   *)
(* of tokens: a string keeps its quotes, a number its digits, a literal is *)
(* one token ("true", "false", "null", and the "NaN" and "Infinity" that   *)
(* json.loads accepts), an object lists its members in the                 *)
(* order of insertion, a repeated key keeping its place and its last value.*)
(* A parse is a record [ok, val, nxt]: nxt is the index after the value.   *)
(***************************************************************************)
ParseFail == [ok |-> FALSE, val |-> <<>>, nxt |-> 0]
Parsed(v, n) == [ok |-> TRUE, val |-> v, nxt |-> n]

\* the index of the quote that closes the string opened before index i, or
\* 0 when a control character or the end of the text comes first (escape
\* sequences are not modelled: no text of the model holds a backslash)
RECURSIVE StringEnd(_, _)
StringEnd(s, i) ==
    IF i > Len(s) \/ s[i] \in {"\n", "\t"} THEN 0
    ELSE IF s[i] = "\"" THEN i ELSE StringEnd(s, i + 1)

RECURSIVE SkipDigits(_, _)
SkipDigits(s, i) ==
    IF i <= Len(s) /\ s[i] \in Digits THEN SkipDigits(s, i + 1) ELSE i

ParseString(s, i) ==
    LET e == StringEnd(s, i + 1)
    IN  IF e = 0 THEN ParseFail ELSE Parsed(SubSeq(s, i, e), e + 1)

\* an integer: 0, or a digit run that does not start with 0
ParseNumber(s, i) ==
    IF s[i] = "0" THEN Parsed(<<"0">>, i + 1)
    ELSE LET e == SkipDigits(s, i) IN Parsed(SubSeq(s, i, e - 1), e)

\* dict assignment: members is a sequence of <<key, value>>
PutMember(members, k, v) ==
    IF \E j \in 1..Len(members) : members[j][1] = k
    THEN [j \in 1..Len(members) |->
             IF members[j][1] = k THEN <<k, v>> ELSE members[j]]
    ELSE Append(members, <<k, v>>)

RECURSIVE JoinMembers(_)
JoinMembers(members) ==
    IF members = <<>> THEN <<>>
    ELSE Head(members)[1] \o <<":">> \o Head(members)[2]
           \o (IF Len(members) > 1 THEN <<",">> ELSE <<>>)
           \o JoinMembers(Tail(members))

RECURSIVE JoinElems(_)
JoinElems(elems) ==
    IF elems = <<>> THEN <<>>
    ELSE Head(elems) \o (IF Len(elems) > 1 THEN <<",">> ELSE <<>>)
           \o JoinElems(Tail(elems))

RECURSIVE ParseValue(_, _)
RECURSIVE ParseMembers(_, _, _)
RECURSIVE ParseElems(_, _, _)

\* s[i] is the first character of a value
ParseValue(s, i) ==
    IF i > Len(s) THEN ParseFail
    ELSE IF s[i] = "\"" THEN ParseString(s, i)
    ELSE IF s[i] = "{"
         THEN LET j == SkipWs(s, i + 1)
              IN  IF j <= Len(s) /\ s[j] = "}"
                  THEN Parsed(<<"{", "}">>, j + 1)
                  ELSE ParseMembers(s, j, <<>>)
    ELSE IF s[i] = "["
         THEN LET j == SkipWs(s, i + 1)
              IN  IF j <= Len(s) /\ s[j] = "]"
                  THEN Parsed(<<"[", "]">>, j + 1)
                  ELSE ParseElems(s, j, <<>>)
    ELSE IF StartsWithAt(s, i, <<"t", "r", "u", "e">>)
         THEN Parsed(<<"true">>, i + 4)
    ELSE IF StartsWithAt(s, i, <<"f", "a", "l", "s", "e">>)
         THEN Parsed(<<"false">>, i + 5)
    ELSE IF StartsWithAt(s, i, <<"n", "u", "l", "l">>)
         THEN Parsed(<<"null">>, i + 4)
    ELSE IF StartsWithAt(s, i, <<"N", "a", "N">>)
         THEN Parsed(<<"NaN">>, i + 3)
    ELSE IF StartsWithAt(s, i, <<"I", "n", "f", "i", "n", "i", "t", "y">>)
         THEN Parsed(<<"Infinity">>, i + 8)
    ELSE IF s[i] \in Digits THEN ParseNumber(s, i)
    ELSE ParseFail

\* s[i] is where the next key of an object must start
ParseMembers(s, i, members) ==
    IF i > Len(s) \/ s[i] # "\"" THEN ParseFail
    ELSE LET k == ParseString(s, i)
         IN  IF ~k.ok THEN ParseFail
             ELSE LET c == SkipWs(s, k.nxt)
                  IN  IF c > Len(s) \/ s[c] # ":" THEN ParseFail
                      ELSE LET v == ParseValue(s, SkipWs(s, c + 1))
                           IN  IF ~v.ok THEN ParseFail
                               ELSE LET ms == PutMember(members, k.val, v.val)
                                        e  == SkipWs(s, v.nxt)
                                    IN  IF e > Len(s) THEN ParseFail
                                        ELSE IF s[e] = "}"
                                             THEN Parsed(<<"{">> \o JoinMembers(ms)
                                                           \o <<"}">>, e + 1)
                                        ELSE IF s[e] = ","
                                             THEN ParseMembers(s, SkipWs(s, e + 1), ms)
                                        ELSE ParseFail

\* s[i] is where the next element of an array must start
ParseElems(s, i, elems) ==
    LET v == ParseValue(s, i)
    IN  IF ~v.ok THEN ParseFail
        ELSE LET es == Append(elems, v.val)
                 e  == SkipWs(s, v.nxt)
             IN  IF e > Len(s) THEN ParseFail
                 ELSE IF s[e] = "]"
                      THEN Parsed(<<"[">> \o JoinElems(es) \o <<"]">>, e + 1)
                 ELSE IF s[e] = ","
                      THEN ParseElems(s, SkipWs(s, e + 1), es)
                 ELSE ParseFail

\* json.loads(s): the whole text is one value, whitespace around it
JsonLoads(s) ==
    LET v == ParseValue(s, SkipWs(s, 1))
    IN  IF v.ok /\ SkipWs(s, v.nxt) > Len(s) THEN v ELSE ParseFail

\* The Normalizer on one upstream text: kind is "ok" with the parsed
\* analysis, "nojson" when no object is found, "parse" when json.loads
\* raises.
NormalizeContent(text) ==
    LET json_str == FindJsonSpan(CleanContent(text))
    IN  IF json_str = <<>> THEN [kind |-> "nojson", analysis |-> <<>>]
        ELSE LET p == JsonLoads(json_str)
             IN  IF p.ok THEN [kind |-> "ok", analysis |-> p.val]
                 ELSE [kind |-> "parse", analysis |-> <<>>]

(***************************************************************************)
(* Request bodies.  An image is absent (or empty, or any falsy value), a   *)
(* string, or another truthy value such as a number.  A profile form is    *)
(* absent, a dict, or another truthy value.                                *)
(***************************************************************************)
Absent == "ABSENT"

RECURSIVE SeqsUpTo(_, _)
SeqsUpTo(S, n) ==
    IF n = 0 THEN {<<>>}
    ELSE LET shorter == SeqsUpTo(S, n - 1)
         IN  shorter \cup {Append(q, c) : q \in shorter, c \in S}

ImageChars == {"A", Pad, "!", Prefix}

NoImage == [kind |-> "absent", s |-> <<>>]
Images ==
    {NoImage, [kind |-> "other", s |-> <<>>]}
        \cup {[kind |-> "str", s |-> q] : q \in SeqsUpTo(ImageChars, MaxImageLen)}

Form(kind, gender, age, bmi, goals, trainingLevel) ==
    [kind |-> kind, gender |-> gender, age |-> age, height |-> Absent,
     weight |-> Absent, bmi |-> bmi, goals |-> goals, mainFocus |-> <<>>,
     trainingLevel |-> trainingLevel, workoutLocation |-> Absent]

NoForm == Form("absent", Absent, Absent, Absent, <<>>, Absent)
EmptyForm == Form("dict", Absent, Absent, Absent, <<>>, Absent)
Forms ==
    {NoForm, EmptyForm,
     Form("other", Absent, Absent, Absent, <<>>, Absent),
     Form("dict", "male", "30", Absent, <<>>, Absent),
     Form("dict", "female", "41", "22", <<"Lose weight", "Endurance">>, "Beginner")}

\* kind "nojson": the body does not parse as JSON (request.json raises
\* BadRequest); "empty": null, {} or another falsy JSON value; "nondict": a
\* truthy JSON value that is no object, such as [1]; "dict": a JSON object
Bodies ==
    {[kind |-> k, image |-> NoImage, form |-> NoForm] :
         k \in {"nojson", "empty", "nondict"}}
        \cup {[kind |-> "dict", image |-> i, form |-> f] : i \in Images, f \in Forms}

\* the truth value Python gives the image and the form
ImageTruthy(image) ==
    image.kind = "other" \/ (image.kind = "str" /\ image.s # <<>>)

FormTruthy(form) ==
    \/ form.kind = "other"
    \/ /\ form.kind = "dict"
       /\ \/ \E f \in {"gender", "age", "height", "weight", "bmi",
                      "trainingLevel", "workoutLocation"} : form[f] # Absent
          \/ form.goals # <<>>
          \/ form.mainFocus # <<>>

(***************************************************************************)
(* Responses (jsonify(...), status).  error is a sequence of text parts.   *)
(***************************************************************************)
NoResponse ==
    [status |-> 0, has_success |-> FALSE, success |-> FALSE, error |-> <<>>,
     has_raw |-> FALSE, raw_response |-> <<>>, analysis |-> <<>>]

\* jsonify({'error': text}), status
PlainError(text, status) ==
    [status |-> status, has_success |-> FALSE, success |-> FALSE,
     error |-> text, has_raw |-> FALSE, raw_response |-> <<>>,
     analysis |-> <<>>]

\* jsonify({'success': False, 'error': text}), status
FailureResponse(text, status) ==
    [status |-> status, has_success |-> TRUE, success |-> FALSE,
     error |-> text, has_raw |-> FALSE, raw_response |-> <<>>,
     analysis |-> <<>>]

\* jsonify({'success': False, 'error': text, 'raw_response': raw}), status
FailureWithRaw(text, raw, status) ==
    [status |-> status, has_success |-> TRUE, success |-> FALSE,
     error |-> text, has_raw |-> TRUE, raw_response |-> raw,
     analysis |-> <<>>]

NoDataResponse == PlainError(<<"No data received">>, 400)
MissingInputResponse ==
    PlainError(<<"Either image or form data must be provided">>, 400)
InvalidImageResponse == PlainError(<<"Invalid image format">>, 400)

\* the handler of the outermost try: except Exception as e
ServerErrorResponse(detail) ==
    FailureResponse(<<"Server error: ", detail>>, 500)

SuccessResponse(analysis_data) ==
    [status |-> 200, has_success |-> TRUE, success |-> TRUE, error |-> <<>>,
     has_raw |-> FALSE, raw_response |-> <<>>, analysis |-> analysis_data]

(***************************************************************************)
(* Prompt Builder and payload (src/app.py 81-219).  The prompt text is the *)
(* sequence of the parts the code concatenates.                            *)
(***************************************************************************)
ImagePhrase == " and image"
ExclusionNote ==
    "NOTE: No body image was provided, so DO NOT include any body composition analysis, body fat percentage, muscle definition, posture analysis, or visual body assessments. Focus only on creating a workout plan and recommendations based on the provided profile information.\n\n"

\* form_data.get(field, default)
FieldOr(form, field, default) ==
    IF form[field] = Absent THEN default ELSE form[field]

\* ', '.join(titles)
RECURSIVE JoinTitles(_)
JoinTitles(titles) ==
    IF titles = <<>> THEN <<>>
    ELSE IF Len(titles) = 1 THEN titles
    ELSE <<Head(titles), ", ">> \o JoinTitles(Tail(titles))

TitlesOr(titles, default) ==
    IF titles # <<>> THEN JoinTitles(titles) ELSE <<default>>

ProfileListing(form) ==
    <<"User Profile Information:\n",
      "- Gender: ", FieldOr(form, "gender", "Not specified"), "\n",
      "- Age: ", FieldOr(form, "age", "Not specified"), "\n",
      "- Height: ", FieldOr(form, "height", "Not specified"), " cm\n",
      "- Weight: ", FieldOr(form, "weight", "Not specified"), " kg\n",
      "- BMI: ", FieldOr(form, "bmi", "Not calculated"), "\n",
      "- Fitness Goals: ">> \o TitlesOr(form.goals, "Not specified") \o
    <<"\n", "- Main Focus Areas: ">>
        \o TitlesOr(form.mainFocus, "Not specified") \o
    <<"\n",
      "- Training Level: ", FieldOr(form, "trainingLevel", "Not specified"), "\n",
      "- Workout Location: ",
      FieldOr(form, "workoutLocation", "Not specified"), "\n\n">>

PromptText(image, form) ==
    <<"Analyze the provided fitness data">>
        \o (IF image # <<>> THEN <<ImagePhrase>> ELSE <<>>)
        \o <<" and provide a comprehensive assessment in the following JSON format.\n\n">>
        \o (IF FormTruthy(form) THEN ProfileListing(form) ELSE <<>>)
        \o (IF image = <<>> THEN <<ExclusionNote>> ELSE <<>>)
        \o <<"Please provide assessment in the following JSON format:",
             "\n\nProvide realistic assessments based on what you can observe. Replace all bracketed placeholders with actual content.">>

\* the two json_structure templates, line by line at the top level (the
\* nested placeholders are folded into their line)
SharedLines ==
    <<"  \"areas_for_improvement\": [ ... ],",
      "  \"workout_plan\": { \"day_1\": { ... } },",
      "  \"nutrition_recommendations\": [ ... ],",
      "  \"recovery_recommendations\": [ ... ],",
      "  \"progress_tracking\": [ ... ]",
      "}">>
BodyCompositionTrue == "  \"has_body_composition\": true,"
BodyCompositionFalse == "  \"has_body_composition\": false,"
ImageTemplate ==
    <<"\n{", "  \"fitness_score\": [number 1-100],", BodyCompositionTrue,
      "  \"body_composition\": { ... },">> \o SharedLines
NoImageTemplate ==
    <<"\n{", "  \"fitness_score\": [number 1-100],", BodyCompositionFalse>>
        \o SharedLines

\* JsonStructure that gives the template with the body composition always
JsonStructureAlwaysImage(image) == ImageTemplate

JsonStructure(image) ==
    IF image # <<>> THEN ImageTemplate ELSE NoImageTemplate

\* {"type": "text", "text": prompt_text + json_structure}
TextBlock(image, form) ==
    [type |-> "text", text |-> PromptText(image, form) \o JsonStructure(image),
     url |-> <<>>]

\* {"type": "image_url", "image_url": {"url": f"data:image/jpeg;base64,..."}}
ImageBlock(image) ==
    [type |-> "image_url", text |-> <<>>,
     url |-> <<"data:image/jpeg;base64,">> \o image]

MessageContent(image, form) ==
    <<TextBlock(image, form)>>
        \o (IF image # <<>> THEN <<ImageBlock(image)>> ELSE <<>>)

NoPayload ==
    [model |-> "", max_tokens |-> 0, response_format |-> "",
     message_content |-> <<>>]

BuildPayload(image, form) ==
    [model |-> "gpt-4o-mini", max_tokens |-> 2000,
     response_format |-> "json_object",
     message_content |-> MessageContent(image, form)]

(***************************************************************************)
(* Upstream replies: what one requests.post call gives.                    *)
(*   kind "timeout": requests.post raises Timeout                          *)
(*   kind "connection": it raises another RequestException                 *)
(*   kind "http": a response with a status and a body:                     *)
(*     "error"       {"error": {"message": msg}} (msg Absent: no message)  *)
(*     "errorshape"  a JSON object whose "error" is not an object          *)
(*     "nochoices"   a JSON object with neither "error" nor "choices"      *)
(*     "chat"        {"choices": [{"message": {"content": content}}]},     *)
(*                   content <<>> standing for "" and for null             *)
(*     "notjson_req" not JSON; response.json() raises the JSONDecodeError  *)
(*                   of requests, a RequestException (requests >= 2.27)    *)
(*     "notjson_val" not JSON; response.json() raises a ValueError that is *)
(*                   no RequestException (older requests)                  *)
(***************************************************************************)
MaxRetries == 2

Reply(kind, status, bodykind, msg, text) ==
    [kind |-> kind, status |-> status, body |-> bodykind, msg |-> msg,
     content |-> text]

NoReply == Reply("none", 0, "", Absent, <<>>)

ErrorStatuses == {429, 503}
Messages == {"Rate limit reached", "The server is overloaded"}

ValidObject == <<"{", "\"", "k", "\"", ":", " ", "1", "}">>
ObjectWithTrue ==
    <<"{", "\"", "h", "\"", ":", " ", "t", "r", "u", "e", ",", " ",
      "\"", "k", "\"", ":", " ", "1", "}">>
ObjectWithBareWord == <<"{", "\"", "k", "\"", ":", " ", "w", "}">>
FencedObject == <<Fence, "j", "s", "o", "n", "\n">> \o ValidObject \o <<"\n", Fence>>
NoObject == <<"h", "e", "l", "l", "o">>
BrokenObject == <<"{", "\"", "k", "\"", ":", " ", "}">>
BlankText == <<" ">>
ObjectWithColonText ==
    <<"{", "\"", "s", "\"", ":", " ", "\"", "a", ":", " ", "b", ",", " ", "c",
      "\"", "}">>

ReplyContents ==
    {ValidObject, ObjectWithTrue, ObjectWithBareWord, FencedObject, NoObject,
     BrokenObject, BlankText, ObjectWithColonText}

Replies ==
    {Reply("timeout", 0, "", Absent, <<>>),
     Reply("connection", 0, "", Absent, <<>>)}
        \cup {Reply("http", st, "error", m, <<>>) :
                  st \in ErrorStatuses, m \in Messages \cup {Absent}}
        \cup {Reply("http", st, b, Absent, <<>>) :
                  st \in ErrorStatuses \cup {200},
                  b \in {"errorshape", "nochoices", "notjson_req", "notjson_val"}}
        \cup {Reply("http", 200, "error", m, <<>>) : m \in Messages}
        \cup {Reply("http", 200, "chat", Absent, c) : c \in ReplyContents \cup {<<>>}}

\* response.ok
ReplyOk(r) == r.status < 400

(***************************************************************************)
(* The errors of one attempt (last_error) and the responses of the last    *)
(* attempt (src/app.py 237-375).                                           *)
(***************************************************************************)
NoError ==
    [kind |-> "none", error |-> <<>>, status_code |-> 0, has_raw |-> FALSE,
     raw_response |-> <<>>]

Error(kind, text, status_code) ==
    [kind |-> kind, error |-> text, status_code |-> status_code,
     has_raw |-> FALSE, raw_response |-> <<>>]

ErrorWithRaw(kind, text, raw, status_code) ==
    [kind |-> kind, error |-> text, status_code |-> status_code,
     has_raw |-> TRUE, raw_response |-> raw]

\* error_data.get('error', {}).get('message', 'OpenAI service error')
ErrorMessage(r) ==
    IF r.body = "error" /\ r.msg # Absent THEN r.msg ELSE "OpenAI service error"

UpstreamError(r) == Error("upstream", <<ErrorMessage(r)>>, r.status)
EmptyError == Error("empty", <<"OpenAI returned empty response">>, 500)
NoJsonError(text) ==
    ErrorWithRaw("nojson", <<"No valid JSON found in AI response">>, text, 500)
JsonParseError(text) ==
    ErrorWithRaw("parse",
                 <<"Failed to parse AI response as JSON: ", "JSONDecodeError">>,
                 text, 500)
TimeoutError == Error("timeout", <<"Analysis timeout. Please try again.">>, 504)
CommunicationError == Error("communication", <<"Service communication error">>, 502)

\* the return of the branch that handles the failure on the last attempt
DirectResponse(err) ==
    IF err.kind \in {"nojson", "parse"}
    THEN FailureWithRaw(err.error, err.raw_response, err.status_code)
    ELSE FailureResponse(err.error, err.status_code)

\* the return after the loop (377-383): raw_response is always a key of the
\* body, null when the error has none
LastErrorResponse(err) ==
    FailureWithRaw(err.error,
                   IF err.has_raw THEN err.raw_response ELSE <<"null">>,
                   err.status_code)

\* attempt < max_retries - 1, for the n-th attempt (n = attempt + 1)
ShouldRetry(n) == n < MaxRetries

\* What one reply makes of an attempt, before the content is normalised:
\* "fail" with the error, "fault" with the exception that reaches the
\* outermost handler, or "content" with the text to normalise.
Outcome(kind, err, detail, text) ==
    [kind |-> kind, err |-> err, detail |-> detail, content |-> text]

\* ClassifyReply where the exceptions that are no RequestException are
\* caught with the communication failures, and retried
ClassifyReplyRetryingFaults(r) ==
    IF r.kind = "timeout" THEN Outcome("fail", TimeoutError, "", <<>>)
    ELSE IF r.kind = "connection" \/ r.body \in {"notjson_req", "notjson_val"}
         THEN Outcome("fail", CommunicationError, "", <<>>)
    ELSE IF ~ReplyOk(r)
         THEN IF r.body = "errorshape"
              THEN Outcome("fail", CommunicationError, "", <<>>)
              ELSE Outcome("fail", UpstreamError(r), "", <<>>)
    ELSE IF r.body # "chat" THEN Outcome("fail", CommunicationError, "", <<>>)
    ELSE IF r.content = <<>> THEN Outcome("fail", EmptyError, "", <<>>)
    ELSE Outcome("content", NoError, "", r.content)

ClassifyReply(r) ==
    IF r.kind = "timeout" THEN Outcome("fail", TimeoutError, "", <<>>)
    ELSE IF r.kind = "connection"
         THEN Outcome("fail", CommunicationError, "", <<>>)
    ELSE IF r.body = "notjson_req"
         THEN Outcome("fail", CommunicationError, "", <<>>)
    ELSE IF r.body = "notjson_val"
         THEN Outcome("fault", NoError, "JSONDecodeError", <<>>)
    ELSE IF ~ReplyOk(r)
         THEN IF r.body = "errorshape"
              THEN Outcome("fault", NoError, "AttributeError", <<>>)
              ELSE Outcome("fail", UpstreamError(r), "", <<>>)
    ELSE IF r.body # "chat" THEN Outcome("fault", NoError, "KeyError", <<>>)
    ELSE IF r.content = <<>> THEN Outcome("fail", EmptyError, "", <<>>)
    ELSE Outcome("content", NoError, "", r.content)

(***************************************************************************)
(* The request handler, stage by stage.                                    *)
(***************************************************************************)
Init ==
    /\ pc = "Idle"
    /\ body = [kind |-> "empty", image |-> NoImage, form |-> NoForm]
    /\ base64_image = <<>>
    /\ form_data = NoForm
    /\ payload = NoPayload
    /\ attempt = 0
    /\ calls = 0
    /\ reply = NoReply
    /\ replies = <<>>
    /\ content = <<>>
    /\ last_error = NoError
    /\ failures = <<>>
    /\ response = NoResponse
    /\ nresp = 0

\* return r: the one response of the request
Respond(r, stage) ==
    /\ response' = r
    /\ nresp' = nresp + 1
    /\ pc' = stage

\* POST /analyze arrives with a body
Receive ==
    /\ pc = "Idle"
    /\ \E b \in Bodies : body' = b
    /\ pc' = "Validating"
    /\ UNCHANGED <<base64_image, form_data, payload, attempt, calls, reply,
                   replies,
                   content, last_error, failures, response, nresp>>

\* the image as it leaves the validator (64-70)
CleanImage(image) == PadTo4(StripPrefix(image.s))

\* the test of 62-77: a value that is no string raises in the membership
\* test, a string may fail to decode
ImageValid(image) ==
    image.kind = "str" /\ B64DecodeOk(CleanImage(image))

\* the return of the validator (46-77), or NoResponse when it passes
ValidationResponse(b) ==
    IF b.kind = "nojson" THEN ServerErrorResponse("BadRequest")
    ELSE IF b.kind = "empty" THEN NoDataResponse
    ELSE IF b.kind = "nondict" THEN ServerErrorResponse("AttributeError")
    ELSE IF ~ImageTruthy(b.image) /\ ~FormTruthy(b.form)
         THEN MissingInputResponse
    ELSE IF ImageTruthy(b.image) /\ ~ImageValid(b.image)
         THEN InvalidImageResponse
    ELSE NoResponse

Validate ==
    /\ pc = "Validating"
    /\ LET r == ValidationResponse(body)
       IN  IF r # NoResponse
           THEN /\ Respond(r, "Failed")
                /\ UNCHANGED <<base64_image, form_data>>
           ELSE /\ base64_image' = IF ImageTruthy(body.image)
                                   THEN CleanImage(body.image) ELSE <<>>
                /\ form_data' = body.form
                /\ pc' = "BuildingPrompt"
                /\ UNCHANGED <<response, nresp>>
    /\ UNCHANGED <<body, payload, attempt, calls, reply, replies, content,
                   last_error,
                   failures>>

\* 81-219: a truthy form that is no dict raises at form_data.get
BuildPrompt ==
    /\ pc = "BuildingPrompt"
    /\ IF form_data.kind = "other"
       THEN /\ Respond(ServerErrorResponse("AttributeError"), "Failed")
            /\ UNCHANGED payload
       ELSE /\ payload' = BuildPayload(base64_image, form_data)
            /\ pc' = "CallingUpstream"
            /\ UNCHANGED <<response, nresp>>
    /\ UNCHANGED <<body, base64_image, form_data, attempt, calls, reply,
                   replies,
                   content, last_error, failures>>

\* a failed attempt, the n-th: retry, or return (246-254 and its likes)
FailAttempt(err, n) ==
    /\ last_error' = err
    /\ failures' = Append(failures, err)
    /\ IF ShouldRetry(n)
       THEN IF n < MaxRetries
            THEN /\ pc' = "CallingUpstream"
                 /\ UNCHANGED <<response, nresp>>
            ELSE Respond(LastErrorResponse(err), "Failed")
       ELSE Respond(DirectResponse(err), "Failed")

\* one pass of the loop up to the content (225-276, 344-375)
CallUpstream ==
    /\ pc = "CallingUpstream"
    /\ attempt < MaxRetries
    /\ \E r \in Replies :
         LET o == ClassifyReply(r)
         IN  /\ reply' = r
             /\ replies' = Append(replies, r)
             /\ calls' = calls + 1
             /\ attempt' = attempt + 1
             /\ content' = IF r.kind = "http" /\ r.body = "chat" /\ ReplyOk(r)
                           THEN r.content ELSE content
             /\ IF o.kind = "fail" THEN FailAttempt(o.err, attempt + 1)
                ELSE IF o.kind = "fault"
                     THEN /\ Respond(ServerErrorResponse(o.detail), "Failed")
                          /\ UNCHANGED <<last_error, failures>>
                ELSE /\ pc' = "Normalizing"
                     /\ UNCHANGED <<last_error, failures, response, nresp>>
    /\ UNCHANGED <<body, base64_image, form_data, payload>>

\* the rest of the pass: the content is cleaned and parsed (279-339)
Normalize ==
    /\ pc = "Normalizing"
    /\ LET n == NormalizeContent(content)
       IN  IF n.kind = "ok"
           THEN /\ Respond(SuccessResponse(n.analysis), "Succeeded")
                /\ UNCHANGED <<last_error, failures>>
           ELSE IF n.kind = "nojson"
                THEN FailAttempt(NoJsonError(content), attempt)
                ELSE FailAttempt(JsonParseError(content), attempt)
    /\ UNCHANGED <<body, base64_image, form_data, payload, attempt, calls,
                   reply, replies, content>>

Next ==
    \/ Receive
    \/ Validate
    \/ BuildPrompt
    \/ CallUpstream
    \/ Normalize

Spec == Init /\ [][Next]_vars

(***************************************************************************)
(* The Normalizer alone: the handler stands after an upstream call that    *)
(* gave a chat reply, on attempt 1 or on attempt 2 after a timeout, for a  *)
(* request with a profile form only.  The reply is a JSON object of up to  *)
(* MaxMembers members, written plainly or inside a tagged code fence; a    *)
(* member is the bare word w, a number, a string, the literal true, or a   *)
(* string that holds a colon and a comma.                                  *)
(***************************************************************************)
ValueKinds == {"bare", "number", "string", "true", "colontext"}
MemberKeys == <<"a", "b", "c", "d">>

ValueText(kind, quoted) ==
    IF kind = "bare"
    THEN IF quoted THEN <<"\"", "w", "\"">> ELSE <<"w">>
    ELSE IF kind = "number" THEN <<"1">>
    ELSE IF kind = "string" THEN <<"\"", "s", "\"">>
    ELSE IF kind = "true" THEN <<"t", "r", "u", "e">>
    ELSE <<"\"", "a", ":", " ", "b", ",", " ", "c", "\"">>

RECURSIVE RenderMembers(_, _, _)
RenderMembers(doc, i, quoted) ==
    IF i > Len(doc) THEN <<>>
    ELSE <<"\"", MemberKeys[i], "\"", ":", " ">> \o ValueText(doc[i], quoted)
           \o (IF i < Len(doc) THEN <<",", " ">> ELSE <<>>)
           \o RenderMembers(doc, i + 1, quoted)

\* the text of a document; quoted: the bare word is written as a string
Render(doc, quoted) == <<"{">> \o RenderMembers(doc, 1, quoted) \o <<"}">>

Fenced(text) == <<Fence, "j", "s", "o", "n", "\n">> \o text \o <<"\n", Fence>>

Docs == SeqsUpTo(ValueKinds, MaxMembers) \ {<<>>}
BareCount(doc) == Cardinality({i \in 1..Len(doc) : doc[i] = "bare"})
\* a JSON object but for one bare word
BareDocs == {d \in Docs : BareCount(d) = 1}
DocTexts ==
    {Render(d, FALSE) : d \in Docs} \cup {Fenced(Render(d, FALSE)) : d \in Docs}

ScenarioForm == Form("dict", "male", "30", Absent, <<>>, Absent)

NormInit ==
    \E c \in DocTexts, n \in 1..MaxRetries :
        /\ pc = "Normalizing"
        /\ body = [kind |-> "dict", image |-> NoImage, form |-> ScenarioForm]
        /\ base64_image = <<>>
        /\ form_data = ScenarioForm
        /\ payload = BuildPayload(<<>>, ScenarioForm)
        /\ attempt = n
        /\ calls = n
        /\ reply = Reply("http", 200, "chat", Absent, c)
        /\ replies = IF n = 1 THEN <<reply>>
                     ELSE <<Reply("timeout", 0, "", Absent, <<>>), reply>>
        /\ content = c
        /\ last_error = IF n = 1 THEN NoError ELSE TimeoutError
        /\ failures = IF n = 1 THEN <<>> ELSE <<TimeoutError>>
        /\ response = NoResponse
        /\ nresp = 0

NormNext == Normalize

NormSpec == NormInit /\ [][NormNext]_vars

(***************************************************************************)
(* The claims.                                                             *)
(***************************************************************************)
Terminal == {"Succeeded", "Failed"}
Validated == pc \notin {"Idle", "Validating"}

\* the request has neither an image nor a profile form
MissingBoth ==
    \/ body.kind # "dict"
    \/ ~ImageTruthy(body.image) /\ ~FormTruthy(body.form)

\* the text block of the payload holds the part x
InPromptText(x) ==
    LET text == payload.message_content[1].text
    IN  \E i \in 1..Len(text) : text[i] = x

\* the payload holds an image attachment with a data URL that is not empty
HasAttachment ==
    \E i \in 1..Len(payload.message_content) :
        /\ payload.message_content[i].type = "image_url"
        /\ Len(payload.message_content[i].url) > 1

\* the request supplied an image: its image is a string with text after the
\* data-URL prefix
ImageSupplied ==
    body.image.kind = "str" /\ StripPrefix(body.image.s) # <<>>

\* C1: a request in which both the image and the profile form are missing
\* is answered 400 with a validation error, and the upstream provider is
\* never called for it.
C1_MissingBothIs400 ==
    (Validated /\ MissingBoth) =>
        /\ pc = "Failed"
        /\ response.status = 400
        /\ response.error # <<>>
        /\ calls = 0

\* an attempt that failed with a non-success upstream status
NonSuccessReply(r) == r.kind = "http" /\ r.status >= 400

\* C2: the upstream provider is called at most 2 times for one request, and
\* when both attempts fail with a non-success upstream status the request
\* ends after the second call, with no third, and its response carries the
\* status code and the error message of the second attempt.
C2_TwoUpstreamErrors ==
    /\ calls <= 2
    /\ (/\ Len(replies) = 2
        /\ NonSuccessReply(replies[1])
        /\ NonSuccessReply(replies[2])) =>
           /\ pc = "Failed"
           /\ calls = 2
           /\ response.status = replies[2].status
           /\ replies[2].msg # Absent => response.error = <<replies[2].msg>>

\* the transient failure an attempt ends in, read from what the provider
\* gave: "ok" for a reply that parses, "other" for a success status whose
\* body is no chat completion
FailureOf(r) ==
    IF r.kind = "timeout" THEN "timeout"
    ELSE IF r.kind = "connection" THEN "communication"
    ELSE IF r.status >= 400 THEN "upstream"
    ELSE IF r.body # "chat" THEN "other"
    ELSE IF r.content = <<>> THEN "empty"
    ELSE NormalizeContent(r.content).kind

TransientFailures ==
    {"upstream", "empty", "nojson", "parse", "timeout", "communication"}

\* the status the response has for a last attempt that failed as k
StatusFor(k, r) ==
    IF k = "upstream" THEN r.status
    ELSE IF k = "timeout" THEN 504
    ELSE IF k = "communication" THEN 502
    ELSE 500

\* C3: when both attempts fail with a transient failure, the response is
\* that of the last attempt alone: the upstream status for a non-success
\* status, 500 for empty content, for no JSON found and for a JSON parse
\* failure, 504 for a timeout, 502 for a communication failure; and the
\* body holds the raw upstream text exactly when the last failure is no
\* JSON found or a JSON parse failure.
C3_LastFailureDecides ==
    (/\ pc \in Terminal
     /\ Len(replies) = 2
     /\ FailureOf(replies[1]) \in TransientFailures
     /\ FailureOf(replies[2]) \in TransientFailures) =>
        LET k == FailureOf(replies[2])
        IN  /\ pc = "Failed"
            /\ response.status = StatusFor(k, replies[2])
            /\ response.has_raw <=> k \in {"nojson", "parse"}
            /\ response.has_raw => response.raw_response = replies[2].content

\* C4: every failure response has the field success, equal to false, and a
\* string field error.
C4_FailureEnvelope ==
    pc = "Failed" =>
        /\ response.has_success
        /\ ~response.success
        /\ response.error # <<>>

\* C5: an image string is padded with the pad character to a length that
\* is a multiple of 4 after its data-URL prefix is stripped and before it
\* is decoded; if the decode fails the response is 400 with the error
\* Invalid image format and the upstream provider is never called.
C5_PaddedThenDecoded ==
    (Validated /\ body.kind = "dict" /\ body.image.kind = "str"
        /\ body.image.s # <<>>) =>
        LET stripped == StripPrefix(body.image.s)
            padded   == stripped \o Pads((4 - (StrLen(stripped) % 4)) % 4)
        IN  IF B64DecodeOk(padded)
            THEN /\ base64_image = padded
                 /\ StrLen(base64_image) % 4 = 0
                 /\ response # InvalidImageResponse
            ELSE /\ pc = "Failed"
                 /\ response.status = 400
                 /\ response.error = <<"Invalid image format">>
                 /\ calls = 0

\* an image with a data-URL prefix that fails to decode once stripped and
\* padded
C5_Witness ==
    /\ pc = "Failed"
    /\ body.kind = "dict"
    /\ body.image.kind = "str"
    /\ HasPrefix(body.image.s)
    /\ StripPrefix(body.image.s) # <<>>
    /\ StrLen(StripPrefix(body.image.s)) % 4 # 0
    /\ response = InvalidImageResponse
    /\ calls = 0

\* C6: in every payload built for the upstream provider, the template has
\* has_body_composition true, the image attachment is included and the
\* exclusion sentence is absent when the request supplied an image; the
\* template has has_body_composition false, no attachment is included and
\* the exclusion sentence is present when it supplied none.
C6_PayloadMatchesImage ==
    payload # NoPayload =>
        IF ImageSupplied
        THEN /\ InPromptText(BodyCompositionTrue)
             /\ ~InPromptText(BodyCompositionFalse)
             /\ HasAttachment
             /\ ~InPromptText(ExclusionNote)
        ELSE /\ InPromptText(BodyCompositionFalse)
             /\ ~InPromptText(BodyCompositionTrue)
             /\ ~HasAttachment
             /\ InPromptText(ExclusionNote)

\* an upstream call for a request with an image behind a data-URL prefix
C6_Witness ==
    /\ calls > 0
    /\ ImageSupplied
    /\ HasPrefix(body.image.s)
    /\ HasAttachment
    /\ InPromptText(BodyCompositionTrue)

\* C7: for a reply that is a JSON object but for one unquoted bare word,
\* the Normalizer gives the result of parsing the same reply with that word
\* written as a quoted string.
C7_BareWordEqualsQuoted ==
    \A d \in BareDocs :
        (pc # "Normalizing"
            /\ content \in {Render(d, FALSE), Fenced(Render(d, FALSE))}) =>
            /\ pc = "Succeeded"
            /\ response.analysis = JsonLoads(Render(d, TRUE)).val

\* C8: the request moves through Validating, BuildingPrompt,
\* CallingUpstream and Normalizing in that order (an attempt that fails
\* with attempts left goes back to CallingUpstream) and ends in one
\* terminal outcome with one response; the upstream provider is called only
\* once validation has passed; a parsed reply returns 200 at once and an
\* unhandled fault during an attempt returns 500 at once, both with no
\* further upstream call.  Every step brings the request closer to its
\* terminal outcome, and the request never waits in CallingUpstream with
\* its attempts used up.
StageEdges ==
    {<<"Idle", "Validating">>,
     <<"Validating", "BuildingPrompt">>, <<"Validating", "Failed">>,
     <<"BuildingPrompt", "CallingUpstream">>, <<"BuildingPrompt", "Failed">>,
     <<"CallingUpstream", "Normalizing">>,
     <<"CallingUpstream", "CallingUpstream">>, <<"CallingUpstream", "Failed">>,
     <<"Normalizing", "Succeeded">>, <<"Normalizing", "CallingUpstream">>,
     <<"Normalizing", "Failed">>}

\* a reply whose handling raises an exception that no handler of the loop
\* catches
FaultReply(r) ==
    /\ r.kind = "http"
    /\ \/ r.body = "notjson_val"
       \/ r.status >= 400 /\ r.body = "errorshape"
       \/ r.status < 400 /\ r.body \in {"error", "errorshape", "nochoices"}

\* the number of steps the request can still take, at most
StepsLeft(stage, n) ==
    IF stage = "Idle" THEN 9
    ELSE IF stage = "Validating" THEN 8
    ELSE IF stage = "BuildingPrompt" THEN 7
    ELSE IF stage = "CallingUpstream" THEN 6 - 2 * n
    ELSE IF stage = "Normalizing" THEN 7 - 2 * n
    ELSE 0

C8_Step ==
    /\ <<pc, pc'>> \in StageEdges
    /\ StepsLeft(pc', attempt') < StepsLeft(pc, attempt)
    /\ (pc = "Validating" /\ pc' = "BuildingPrompt") =>
           /\ body.kind = "dict"
           /\ ImageTruthy(body.image) \/ FormTruthy(body.form)
    /\ calls' # calls => (pc = "CallingUpstream" /\ calls' = calls + 1)
    /\ pc = "CallingUpstream" => calls' = calls + 1
    /\ nresp' = IF pc' \in Terminal THEN nresp + 1 ELSE nresp
    /\ pc' = "Succeeded" =>
           /\ response'.status = 200
           /\ response'.success
           /\ attempt \in {1, 2}
    /\ (pc = "CallingUpstream" /\ FaultReply(reply')) =>
           (pc' = "Failed" /\ response'.status = 500)
    /\ (pc = "Normalizing" /\ pc' = "CallingUpstream") => attempt = 1

C8_State ==
    /\ nresp = IF pc \in Terminal THEN 1 ELSE 0
    /\ (pc \in Terminal) = (response # NoResponse)
    /\ calls > 0 => pc \in {"CallingUpstream", "Normalizing"} \cup Terminal
    /\ pc = "CallingUpstream" => attempt < MaxRetries
    /\ StepsLeft(pc, attempt) >= 0

C8_StagesInOrder == []C8_State /\ [][C8_Step]_vars

\* a reply parsed on the second attempt
C8_Witness ==
    /\ pc = "Succeeded"
    /\ calls = 2
    /\ Len(failures) = 1
    /\ response.status = 200

\* C9: for a reply whose content is already a valid JSON object, the
\* handler returns 200 with success true and an analysis equal to that
\* object, every value unchanged (a boolean stays a boolean).
C9_ValidObjectUnchanged ==
    (pc # "Normalizing" /\ content # <<>> /\ Head(content) = "{"
        /\ JsonLoads(content).ok) =>
        /\ pc = "Succeeded"
        /\ response.status = 200
        /\ response.success
        /\ response.analysis = JsonLoads(content).val

\* C10: whenever the upstream provider is called, the request sent to it
\* carries an image attachment that is not empty or the profile-form
\* listing.
C10_UpstreamHasAnInput ==
    calls > 0 =>
        HasAttachment \/ InPromptText("User Profile Information:\n")

====
